---- MODULE Spec2Model ----
(***************************************************************************)
(* NeuronConfig (optimum/exporters/neuron/base.py): the axis registry,     *)
(* the dynamic attribute routing, the mandatory-axis validation, the dummy *)
(* input generation and the positional-input wrapper, as a state machine   *)
(* over one configuration object.                                          *)
(*                                                                         *)
(* Representation.  A Python dict is a sequence of <<key, value>> pairs in *)
(* insertion order with pairwise distinct keys.  A tuple or list is a      *)
(* sequence.  Keyword arguments are a function from the names given to     *)
(* their values.  None is the integer -1; axis dimensions are 1..MaxDim.   *)
(* A MANDATORY_AXES entry is a record: isTuple tells a (tasks, name) pair  *)
(* from a bare name, tasksIsTuple tells a tuple of tasks (taskTup) from a  *)
(* single task string (taskStr).                                           *)
(*                                                                         *)
(* Declared axis names are taken to be distinct from the names of the     *)
(* object's own attributes (_config, _normalized_config, mandatory_axes,   *)
(* task, _task, _axes, dynamic_batch_size).                                *)
(***************************************************************************)
EXTENDS Integers, Sequences, FiniteSets, TLC

VARIABLES
    MANDATORY_AXES,                 \* class attribute: the axis declarations
    DUMMY_INPUT_GENERATOR_CLASSES,  \* class attribute: per generator, the input names it supports
    inputs,                         \* the `inputs` property of the concrete class
    _normalized_config,             \* attribute name -> value of the normalized model configuration
    _task,                          \* self._task
    mandatory_axes,                 \* self.mandatory_axes
    _axes,                          \* self._axes
    dynamic_batch_size,             \* self.dynamic_batch_size
    instance_dict,                  \* ordinary instance attributes held under axis-like names
    wrapper,                        \* the ModelWrapper built last: whether there is one, and its input_names
    last                            \* the last call made on the object and its outcome

vars == <<MANDATORY_AXES, DUMMY_INPUT_GENERATOR_CLASSES, inputs, _normalized_config, _task,
          mandatory_axes, _axes, dynamic_batch_size, instance_dict, wrapper, last>>

-----------------------------------------------------------------------------
(* Bounds *)

MaxDim == 2

MaxDecl == 3

MaxGens == 2

MaxInputs == 2

-----------------------------------------------------------------------------
(* Values *)

None == -1

Dims == 1..MaxDim

OptDims == Dims \cup {None}

InitAxisNames ==
    <<"batch_size", "sequence_length", "num_choices", "width", "height", "num_channels",
      "feature_size", "nb_max_frames", "audio_sequence_length">>

Range(s) == {s[i] : i \in 1..Len(s)}

\* All sequences over S of length at most n.
SeqsUpTo(S, n) == UNION {[1..k -> S] : k \in 0..n}

-----------------------------------------------------------------------------
(* Python dict *)

DictKeys(d) == [i \in 1..Len(d) |-> d[i][1]]

DictHas(d, k) == \E i \in 1..Len(d) : d[i][1] = k

DictGet(d, k) == d[CHOOSE i \in 1..Len(d) : d[i][1] = k][2]

\* d[k] = v: an existing key keeps its position, a new key goes last.
DictSet(d, k, v) ==
    IF DictHas(d, k)
    THEN [i \in 1..Len(d) |-> IF d[i][1] = k THEN <<k, v>> ELSE d[i]]
    ELSE Append(d, <<k, v>>)

RECURSIVE DictFromPairs(_)
\* dict(pairs): later pairs overwrite earlier ones with the same key.
DictFromPairs(pairs) ==
    IF pairs = <<>> THEN <<>>
    ELSE LET n == Len(pairs)
         IN  DictSet(DictFromPairs(SubSeq(pairs, 1, n - 1)), pairs[n][1], pairs[n][2])

\* zip(a, b): as long as the shorter of the two.
Zip(a, b) ==
    LET n == IF Len(a) < Len(b) THEN Len(a) ELSE Len(b)
    IN  [i \in 1..n |-> <<a[i], b[i]>>]

-----------------------------------------------------------------------------
(* NeuronConfig.get_mandatory_axes_for_task *)

\* if not isinstance(tasks, tuple): tasks = (tasks,)
AxisTasks(axis) == IF ~axis.tasksIsTuple THEN <<axis.taskStr>> ELSE axis.taskTup

RECURSIVE mandatory_axes_loop(_, _, _, _)
\* The for loop over cls.MANDATORY_AXES, from entry i on, with the list built so far.
mandatory_axes_loop(decl, task, i, axes) ==
    IF i > Len(decl) THEN axes
    ELSE LET axis == decl[i]
         IN  IF axis.isTuple /\ task \notin Range(AxisTasks(axis))
             THEN mandatory_axes_loop(decl, task, i + 1, axes)
             ELSE mandatory_axes_loop(decl, task, i + 1, Append(axes, axis.name))

RECURSIVE mandatory_axes_loop_dedup(_, _, _, _)
mandatory_axes_loop_dedup(decl, task, i, axes) ==
    IF i > Len(decl) THEN axes
    ELSE LET axis == decl[i]
         IN  IF (axis.isTuple /\ task \notin Range(AxisTasks(axis))) \/ axis.name \in Range(axes)
             THEN mandatory_axes_loop_dedup(decl, task, i + 1, axes)
             ELSE mandatory_axes_loop_dedup(decl, task, i + 1, Append(axes, axis.name))

\* The loop with an added "if name not in axes" guard before the append.
get_mandatory_axes_for_task_dedup(decl, task) == mandatory_axes_loop_dedup(decl, task, 1, <<>>)

get_mandatory_axes_for_task(decl, task) == mandatory_axes_loop(decl, task, 1, <<>>)

-----------------------------------------------------------------------------
(* NeuronConfig.__setattr__, __getattr__, __init__ *)

\* The value stored for a mandatory axis: None falls back to the normalized config.
axis_value(ncfg, name, value) ==
    IF value = None
    THEN IF name \in DOMAIN ncfg THEN ncfg[name] ELSE value
    ELSE value

\* super().__setattr__(name, value) on the instance attributes.
object_setattr(dict, name, value) ==
    [n \in DOMAIN dict \cup {name} |-> IF n = name THEN value ELSE dict[n]]

\* __setattr__ without the fallback to the normalized config.
setattr_no_fallback(mand, ncfg, axes, dict, name, value) ==
    IF name \in Range(mand)
    THEN [axes |-> DictSet(axes, name, value), dict |-> dict]
    ELSE [axes |-> axes, dict |-> object_setattr(dict, name, value)]

\* __setattr__(name, value) with self.mandatory_axes = mand: the new _axes and
\* the new instance attributes.
setattr(mand, ncfg, axes, dict, name, value) ==
    IF name \in Range(mand)
    THEN [axes |-> DictSet(axes, name, axis_value(ncfg, name, value)), dict |-> dict]
    ELSE [axes |-> axes, dict |-> object_setattr(dict, name, value)]

\* __getattr__(attr_name), which Python calls when the ordinary lookup fails.
getattr_hook(axes, attr_name) ==
    IF attr_name # "_axes" /\ DictHas(axes, attr_name)
    THEN [err |-> "", ret |-> DictGet(axes, attr_name)]
    ELSE [err |-> "AttributeError", ret |-> None]

\* Reading self.<name>: an instance attribute is found by the ordinary lookup
\* and hides the axis of the same name; otherwise __getattr__ answers.
getattr(axes, dict, attr_name) ==
    IF attr_name \in DOMAIN dict
    THEN [err |-> "", ret |-> dict[attr_name]]
    ELSE getattr_hook(axes, attr_name)

RECURSIVE init_axes_loop(_, _, _, _, _, _)
\* for name, value in axes_values.items(): setattr(self, name, value)
init_axes_loop(mand, ncfg, axes, dict, axes_values, i) ==
    IF i > Len(InitAxisNames) THEN [axes |-> axes, dict |-> dict]
    ELSE LET name == InitAxisNames[i]
             st == setattr(mand, ncfg, axes, dict, name, axes_values[name])
         IN  init_axes_loop(mand, ncfg, st.axes, st.dict, axes_values, i + 1)

\* __init__: the task setter computes mandatory_axes, _axes starts empty, the
\* batch size is forced to 1 for dynamic batching on a Neuron device, and every
\* axis argument is written through __setattr__ in the order of axes_values.
init(decl, ncfg, task, dyn, neuron_available, args) ==
    LET mand == get_mandatory_axes_for_task(decl, task)
        axes_values == [n \in DOMAIN args |->
                          IF n = "batch_size" /\ dyn /\ neuron_available THEN 1 ELSE args[n]]
        st == init_axes_loop(mand, ncfg, <<>>, [n \in {} |-> None], axes_values, 1)
    IN  [mandatory_axes |-> mand, axes |-> st.axes, dict |-> st.dict]

-----------------------------------------------------------------------------
(* NeuronConfig._validate_mandatory_axes, _create_dummy_input_generator_classes *)

RECURSIVE validate_loop(_, _)
\* The for loop over self._axes.items() from position i on: the name of the
\* first axis whose value is None, "" when there is none.
validate_loop(axes, i) ==
    IF i > Len(axes) THEN ""
    ELSE IF axes[i][2] = None THEN axes[i][1]
    ELSE validate_loop(axes, i + 1)

RECURSIVE validate_loop_last(_, _, _)
validate_loop_last(axes, i, found) ==
    IF i > Len(axes) THEN found
    ELSE validate_loop_last(axes, i + 1, IF axes[i][2] = None THEN axes[i][1] ELSE found)

\* Validation that runs the whole loop and reports the axis it saw last.
validate_mandatory_axes_last(axes) ==
    LET name == validate_loop_last(axes, 1, "")
    IN  IF name = "" THEN [err |-> "", errName |-> ""]
        ELSE [err |-> "MissingMandatoryAxisDimension", errName |-> name]

_validate_mandatory_axes(axes) ==
    LET name == validate_loop(axes, 1)
    IN  IF name = "" THEN [err |-> "", errName |-> ""]
        ELSE [err |-> "MissingMandatoryAxisDimension", errName |-> name]

\* kwargs.pop(name, axis_dim)
kwargs_pop(kwargs, name, default) == IF name \in DOMAIN kwargs THEN kwargs[name] ELSE default

RECURSIVE override_loop(_, _, _)
\* for name, axis_dim in self._axes.items(): self._axes[name] = kwargs.pop(name, axis_dim)
override_loop(axes, kwargs, i) ==
    IF i > Len(axes) THEN axes
    ELSE override_loop(DictSet(axes, axes[i][1], kwargs_pop(kwargs, axes[i][1], axes[i][2])),
                       kwargs, i + 1)

RECURSIVE update_loop(_, _)
update_loop(axes, kwargs) ==
    IF DOMAIN kwargs = {} THEN axes
    ELSE LET k == CHOOSE n \in DOMAIN kwargs : TRUE
         IN  update_loop(DictSet(axes, k, kwargs[k]), [n \in DOMAIN kwargs \ {k} |-> kwargs[n]])

\* The override step written as self._axes.update(kwargs).
apply_overrides_update(axes, kwargs) == update_loop(axes, kwargs)

apply_overrides(axes, kwargs) == override_loop(axes, kwargs, 1)

\* _create_dummy_input_generator_classes(**kwargs): the _axes it leaves, the
\* error of validation, and the generators instantiated (each with the task
\* and the axes it was given).
_create_dummy_input_generator_classes(task, axes, classes, kwargs) ==
    LET new_axes == apply_overrides(axes, kwargs)
        v == _validate_mandatory_axes(new_axes)
    IN  [axes |-> new_axes, err |-> v.err, errName |-> v.errName,
         generators |-> IF v.err # "" THEN <<>>
                        ELSE [g \in 1..Len(classes) |->
                                [cls |-> g, task |-> task, axes |-> new_axes]]]

-----------------------------------------------------------------------------
(* NeuronConfig.generate_dummy_inputs *)

\* dummy_input_gen.generate(input_name, framework="pt") of generator g
Tensor(g, input_name) == [gen |-> g, name |-> input_name]

RECURSIVE generator_loop(_, _, _, _)
\* The inner for loop from generator g on: the generator that supplied the
\* input (0 when none did) and the supports_input calls made.
generator_loop(classes, input_name, g, queries) ==
    IF g > Len(classes) THEN [gen |-> 0, queries |-> queries]
    ELSE IF input_name \in classes[g]
    THEN [gen |-> g, queries |-> Append(queries, <<g, input_name>>)]
    ELSE generator_loop(classes, input_name, g + 1, Append(queries, <<g, input_name>>))

RECURSIVE generator_loop_no_break(_, _, _, _, _)
generator_loop_no_break(classes, input_name, g, queries, found) ==
    IF g > Len(classes) THEN [gen |-> found, queries |-> queries]
    ELSE generator_loop_no_break(classes, input_name, g + 1, Append(queries, <<g, input_name>>),
                                 IF input_name \in classes[g] THEN g ELSE found)

\* The inner loop without its break: the last supporting generator wins.
find_generator_no_break(classes, input_name) ==
    generator_loop_no_break(classes, input_name, 1, <<>>, 0)

find_generator(classes, input_name) == generator_loop(classes, input_name, 1, <<>>)

RECURSIVE inputs_loop(_, _, _, _)
\* The outer for loop over self.inputs from position i on.  st holds
\* dummy_inputs, the supports_input and generate calls made, and the error.
inputs_loop(classes, names, i, st) ==
    IF i > Len(names) THEN st
    ELSE LET f == find_generator(classes, names[i])
             q == st.queries \o f.queries
         IN  IF f.gen = 0
             THEN [st EXCEPT !.queries = q, !.err = "RuntimeError", !.errName = names[i]]
             ELSE inputs_loop(classes, names, i + 1,
                    [st EXCEPT !.queries = q,
                               !.calls = Append(@, <<f.gen, names[i]>>),
                               !.dummy_inputs = DictSet(@, names[i], Tensor(f.gen, names[i]))])

\* generate_dummy_inputs(return_tuple, **kwargs): what it leaves in _axes, what
\* it raises, the generators it instantiated, the calls it made on them and
\* what it returned (returned is "dict", "tuple" or "" when it raised).
generate_dummy_inputs(task, axes, classes, names, return_tuple, kwargs) ==
    LET c == _create_dummy_input_generator_classes(task, axes, classes, kwargs)
        base == [axes |-> c.axes, err |-> c.err, errName |-> c.errName,
                 generators |-> c.generators, queries |-> <<>>, calls |-> <<>>,
                 dummy_inputs |-> <<>>, returned |-> "", ret_dict |-> <<>>, ret_tuple |-> <<>>]
    IN  IF c.err # "" THEN base
        ELSE LET r == inputs_loop(classes, names, 1, base)
             IN  IF r.err # "" THEN r
                 ELSE IF return_tuple
                 THEN [r EXCEPT !.returned = "tuple",
                                !.ret_tuple = [i \in 1..Len(r.dummy_inputs) |-> r.dummy_inputs[i][2]]]
                 ELSE [r EXCEPT !.returned = "dict", !.ret_dict = r.dummy_inputs]

-----------------------------------------------------------------------------
(* NeuronConfig.check_model_inputs_order, ModelWrapper.forward *)

\* ModelWrapper(model, list(dummy_inputs.keys())): the wrapper's input_names
check_model_inputs_order(dummy_inputs) == DictKeys(dummy_inputs)

\* forward without the length check: zip stops at the shorter sequence.
forward_unchecked(names, input) ==
    [err |-> "", model_calls |-> <<DictFromPairs(Zip(names, input))>>]

\* forward(*input): the error raised and the keyword arguments of each call
\* made to the wrapped model.
forward(names, input) ==
    IF Len(input) # Len(names)
    THEN [err |-> "ValueError", model_calls |-> <<>>]
    ELSE [err |-> "", model_calls |-> <<DictFromPairs(Zip(names, input))>>]

-----------------------------------------------------------------------------
(* The classes, configurations and arguments the object is exercised with *)

Bare(n) == [isTuple |-> FALSE, tasksIsTuple |-> FALSE, taskStr |-> "", taskTup |-> <<>>, name |-> n]

ForTask(t, n) == [isTuple |-> TRUE, tasksIsTuple |-> FALSE, taskStr |-> t, taskTup |-> <<>>, name |-> n]

ForTasks(ts, n) == [isTuple |-> TRUE, tasksIsTuple |-> TRUE, taskStr |-> "", taskTup |-> ts, name |-> n]

Tasks == {"text-classification", "multiple-choice"}

\* Two MANDATORY_AXES declarations in the form of the class docstring: an axis
\* needed for every task with one needed for a single task, and two axes each
\* needed for its own task(s).
Declarations ==
    { <<Bare("batch_size"), ForTask("multiple-choice", "num_choices")>>,
      <<ForTasks(<<"multiple-choice", "question-answering">>, "num_choices"),
        ForTask("text-classification", "batch_size")>> }

NoAttributes == [n \in {} |-> None]

NormalizedConfigs ==
    UNION {[S -> {None, 1}] : S \in SUBSET {"num_choices"}}

\* Constructor arguments: batch_size and num_choices are given or left None,
\* the other axes are left None.
ArgNames == {"batch_size", "num_choices"}

InitArgs ==
    {[n \in Range(InitAxisNames) |-> IF n \in ArgNames THEN a[n] ELSE None] :
        a \in [ArgNames -> OptDims]}

WriteNames == {"batch_size", "num_choices"}

ReadNames == WriteNames \cup {"num_beams"}

OverrideNames == {"batch_size", "num_choices"}

Overrides == UNION {[S -> {None, MaxDim}] : S \in SUBSET OverrideNames}

InputNames == {"input_ids", "attention_mask", "token_type_ids"}

\* The input names a dummy input generator class supports.
GeneratorKinds == {{"input_ids"}, {"input_ids", "attention_mask"}, {}}

AxisEntries ==
    {Bare(n) : n \in {"batch_size", "num_beams"}}
    \cup {ForTask(t, n) : t \in Tasks, n \in {"num_choices", "batch_size"}}
    \cup {ForTasks(ts, "num_choices") :
            ts \in {<<>>, <<"multiple-choice", "question-answering">>,
                    <<"text-classification", "multiple-choice">>}}

\* The positional values a wrapper is called with: one more than the inputs
\* a class declares at most, each value one of two tensors.
PositionalInputs == SeqsUpTo({1, 2}, MaxInputs + 1)

-----------------------------------------------------------------------------
(* State machine *)

NoCall ==
    [op |-> "", name |-> "", value |-> None, task |-> "", kwargs |-> NoAttributes,
     return_tuple |-> FALSE, err |-> "", errName |-> "", ret |-> None,
     result_axes |-> <<>>, generators |-> <<>>, queries |-> <<>>, calls |-> <<>>,
     dummy_inputs |-> <<>>, returned |-> "", ret_dict |-> <<>>, ret_tuple |-> <<>>,
     input |-> <<>>, model_calls |-> <<>>]

\* The state NeuronConfig(config, task, ...) leaves.
Constructed(decl, classes, names, ncfg, task, dyn, neuron_available, args) ==
    LET self == init(decl, ncfg, task, dyn, neuron_available, args)
    IN  /\ MANDATORY_AXES = decl
        /\ DUMMY_INPUT_GENERATOR_CLASSES = classes
        /\ inputs = names
        /\ _normalized_config = ncfg
        /\ _task = task
        /\ mandatory_axes = self.mandatory_axes
        /\ _axes = self.axes
        /\ dynamic_batch_size = dyn
        /\ instance_dict = self.dict
        /\ wrapper = [built |-> FALSE, input_names |-> <<>>]
        /\ last = [NoCall EXCEPT !.op = "init", !.task = task]

Init ==
    \E decl \in Declarations, ncfg \in NormalizedConfigs, task \in Tasks,
       dyn \in BOOLEAN, neuron_available \in BOOLEAN, args \in InitArgs :
        Constructed(decl, <<{"input_ids", "attention_mask"}>>, <<"input_ids", "attention_mask">>,
                    ncfg, task, dyn, neuron_available, args)

InitAxes ==
    \E decl \in SeqsUpTo(AxisEntries, MaxDecl) :
        Constructed(decl, <<>>, <<>>, NoAttributes, "text-classification", FALSE, FALSE,
                    [n \in Range(InitAxisNames) |-> None])

InitGen ==
    \E classes \in SeqsUpTo(GeneratorKinds, MaxGens), names \in SeqsUpTo(InputNames, MaxInputs),
       batch_size \in {None, 1} :
        Constructed(<<Bare("batch_size")>>, classes, names, NoAttributes, "text-classification",
                    FALSE, FALSE,
                    [n \in Range(InitAxisNames) |-> IF n = "batch_size" THEN batch_size ELSE None])

InitWrapper ==
    \E names \in SeqsUpTo(InputNames, MaxInputs) :
        Constructed(<<Bare("batch_size")>>, <<InputNames>>, names, NoAttributes,
                    "text-classification", FALSE, FALSE,
                    [n \in Range(InitAxisNames) |-> IF n = "batch_size" THEN 1 ELSE None])

\* self.<name> = value
SetAttr(name, value) ==
    LET st == setattr(mandatory_axes, _normalized_config, _axes, instance_dict, name, value)
    IN  /\ _axes' = st.axes
        /\ instance_dict' = st.dict
        /\ last' = [NoCall EXCEPT !.op = "setattr", !.name = name, !.value = value]
        /\ UNCHANGED <<MANDATORY_AXES, DUMMY_INPUT_GENERATOR_CLASSES, inputs, _normalized_config,
                       _task, mandatory_axes, dynamic_batch_size, wrapper>>

\* self.<name>
GetAttr(name) ==
    LET r == getattr(_axes, instance_dict, name)
    IN  /\ last' = [NoCall EXCEPT !.op = "getattr", !.name = name, !.err = r.err, !.ret = r.ret]
        /\ UNCHANGED <<MANDATORY_AXES, DUMMY_INPUT_GENERATOR_CLASSES, inputs, _normalized_config,
                       _task, mandatory_axes, _axes, dynamic_batch_size, instance_dict, wrapper>>

\* self.task = value: the property setter
SetTask(value) ==
    /\ _task' = value
    /\ mandatory_axes' = get_mandatory_axes_for_task(MANDATORY_AXES, value)
    /\ last' = [NoCall EXCEPT !.op = "task", !.task = value]
    /\ UNCHANGED <<MANDATORY_AXES, DUMMY_INPUT_GENERATOR_CLASSES, inputs, _normalized_config,
                   _axes, dynamic_batch_size, instance_dict, wrapper>>

\* cls.get_mandatory_axes_for_task(task)
GetMandatoryAxesForTask(task) ==
    /\ last' = [NoCall EXCEPT !.op = "get_mandatory_axes_for_task", !.task = task,
                              !.result_axes = get_mandatory_axes_for_task(MANDATORY_AXES, task)]
    /\ UNCHANGED <<MANDATORY_AXES, DUMMY_INPUT_GENERATOR_CLASSES, inputs, _normalized_config,
                   _task, mandatory_axes, _axes, dynamic_batch_size, instance_dict, wrapper>>

\* self.generate_dummy_inputs(return_tuple, **kwargs)
GenerateDummyInputs(return_tuple, kwargs) ==
    \E r \in {generate_dummy_inputs(_task, _axes, DUMMY_INPUT_GENERATOR_CLASSES, inputs,
                                    return_tuple, kwargs)} :
        /\ _axes' = r.axes
        /\ last' = [NoCall EXCEPT !.op = "generate_dummy_inputs", !.kwargs = kwargs,
                                  !.return_tuple = return_tuple,
                                  !.err = r.err, !.errName = r.errName,
                                  !.generators = r.generators, !.queries = r.queries,
                                  !.calls = r.calls, !.dummy_inputs = r.dummy_inputs,
                                  !.returned = r.returned, !.ret_dict = r.ret_dict,
                                  !.ret_tuple = r.ret_tuple]
        /\ UNCHANGED <<MANDATORY_AXES, DUMMY_INPUT_GENERATOR_CLASSES, inputs, _normalized_config,
                       _task, mandatory_axes, dynamic_batch_size, instance_dict, wrapper>>

\* self.check_model_inputs_order(model, dummy_inputs) on the mapping that
\* generate_dummy_inputs has just returned
CheckModelInputsOrder ==
    /\ last.op = "generate_dummy_inputs"
    /\ last.returned = "dict"
    /\ wrapper' = [built |-> TRUE, input_names |-> check_model_inputs_order(last.ret_dict)]
    /\ last' = [NoCall EXCEPT !.op = "check_model_inputs_order", !.ret_dict = last.ret_dict]
    /\ UNCHANGED <<MANDATORY_AXES, DUMMY_INPUT_GENERATOR_CLASSES, inputs, _normalized_config,
                   _task, mandatory_axes, _axes, dynamic_batch_size, instance_dict>>

\* wrapper(*input)
Forward(input) ==
    /\ wrapper.built
    /\ LET r == forward(wrapper.input_names, input)
       IN  last' = [NoCall EXCEPT !.op = "forward", !.input = input, !.err = r.err,
                                  !.model_calls = r.model_calls]
    /\ UNCHANGED <<MANDATORY_AXES, DUMMY_INPUT_GENERATOR_CLASSES, inputs, _normalized_config,
                   _task, mandatory_axes, _axes, dynamic_batch_size, instance_dict, wrapper>>

Next ==
    \/ \E name \in WriteNames, value \in OptDims : SetAttr(name, value)
    \/ \E name \in ReadNames : GetAttr(name)
    \/ \E value \in Tasks : SetTask(value)
    \/ \E kwargs \in Overrides : GenerateDummyInputs(FALSE, kwargs)

\* One configuration object: attribute writes and reads, task reassignments
\* and dummy input generation with axis overrides.
Spec == Init /\ [][Next]_vars

NextAxes == \E task \in Tasks \cup {"question-answering"} : GetMandatoryAxesForTask(task)

\* The class method on every declaration list of at most MaxDecl entries.
SpecAxes == InitAxes /\ [][NextAxes]_vars

NextGen ==
    \E return_tuple \in BOOLEAN, kwargs \in {NoAttributes, [batch_size |-> None], [batch_size |-> 1]} :
        GenerateDummyInputs(return_tuple, kwargs)

\* Dummy input generation over every list of at most MaxGens generator classes
\* and every list of at most MaxInputs input names.
SpecGen == InitGen /\ [][NextGen]_vars

NextWrapper ==
    \/ \E return_tuple \in BOOLEAN : GenerateDummyInputs(return_tuple, NoAttributes)
    \/ CheckModelInputsOrder
    \/ \E input \in PositionalInputs : Forward(input)

\* The wrapper built from generated dummy inputs and called positionally.
SpecWrapper == InitWrapper /\ [][NextWrapper]_vars

-----------------------------------------------------------------------------
(* Properties *)

\* The axes that are mandatory for the task the object holds now.
MandatoryNow == Range(get_mandatory_axes_for_task(MANDATORY_AXES, _task))

\* C1: every key of the axis mapping _axes is a mandatory axis of the current
\* task, in every state reached by construction, attribute writes, task
\* reassignments and generate_dummy_inputs calls.
C1_AxesKeysAreMandatory ==
    \A i \in 1..Len(_axes) : _axes[i][1] \in MandatoryNow

\* C2: a concrete value written to a name that is mandatory for the current
\* task is what reading that name returns right afterwards; and reading a
\* name that is neither a key of _axes nor an instance attribute raises
\* AttributeError.
C2_ReadReturnsWrittenValue ==
    [][ /\ ( /\ last.op = "setattr"
             /\ last.name \in MandatoryNow
             /\ last.value # None
             /\ last'.op = "getattr"
             /\ last'.name = last.name )
           => (last'.err = "" /\ last'.ret = last.value)
        /\ ( /\ last'.op = "getattr"
             /\ ~DictHas(_axes, last'.name)
             /\ last'.name \notin DOMAIN instance_dict )
           => last'.err = "AttributeError" ]_vars

\* C3: writing None to a name that is mandatory for the current task stores the
\* normalized configuration's value for it when the configuration has that
\* attribute and None when it has not; writing another value stores that
\* value; writing to a name that is not mandatory leaves the axis mapping as
\* it was and sets the instance attribute, and no other one.
C3_WriteRouting ==
    [][ last'.op = "setattr" =>
          LET name == last'.name
              value == last'.value
          IN  IF name \in MandatoryNow
              THEN /\ DictHas(_axes', name)
                   /\ DictGet(_axes', name) =
                        ( IF value # None THEN value
                          ELSE IF name \in DOMAIN _normalized_config
                               THEN _normalized_config[name]
                               ELSE None )
              ELSE /\ _axes' = _axes
                   /\ DOMAIN instance_dict' = DOMAIN instance_dict \cup {name}
                   /\ instance_dict'[name] = value
                   /\ \A n \in DOMAIN instance_dict \ {name} :
                        instance_dict'[n] = instance_dict[n] ]_vars

\* C3 witness: None was written to a mandatory axis that the normalized
\* configuration declares, and the configuration's value is what is stored.
C3_Witness ==
    /\ last.op = "setattr"
    /\ last.value = None
    /\ last.name \in MandatoryNow
    /\ last.name \in DOMAIN _normalized_config
    /\ _normalized_config[last.name] # None
    /\ DictHas(_axes, last.name)
    /\ DictGet(_axes, last.name) = _normalized_config[last.name]

\* Whether a declaration is unscoped or scoped to a task-set that holds the task.
AppliesTo(axis, task) ==
    \/ ~axis.isTuple
    \/ IF axis.tasksIsTuple
       THEN \E j \in 1..Len(axis.taskTup) : axis.taskTup[j] = task
       ELSE axis.taskStr = task

\* The names of the declarations that apply to the task, in declaration order.
AppliedNames(decl, task) ==
    LET Test(axis) == AppliesTo(axis, task)
        kept == SelectSeq(decl, Test)
    IN  [i \in 1..Len(kept) |-> kept[i].name]

\* C4: get_mandatory_axes_for_task(T) returns exactly the names of the
\* declarations that are unscoped or whose task-set contains T, in declaration
\* order and with duplicates kept.
C4_MandatoryAxesAreTheAppliedNames ==
    last.op = "get_mandatory_axes_for_task"
        => last.result_axes = AppliedNames(MANDATORY_AXES, last.task)

\* C4 witness: a call whose result leaves a declaration out and holds a name twice.
C4_Witness ==
    /\ last.op = "get_mandatory_axes_for_task"
    /\ Len(last.result_axes) < Len(MANDATORY_AXES)
    /\ \E i, j \in 1..Len(last.result_axes) : i < j /\ last.result_axes[i] = last.result_axes[j]

\* C5: when generate_dummy_inputs fails with MissingMandatoryAxisDimension
\* naming an axis, the normalized configuration provides no concrete value
\* for that axis.
C5_MissingAxisHasNoFallback ==
    (last.op = "generate_dummy_inputs" /\ last.err = "MissingMandatoryAxisDimension")
        => ~( /\ last.errName \in DOMAIN _normalized_config
              /\ _normalized_config[last.errName] # None )

\* C6: when an axis of the mapping is None once the overrides are applied,
\* generate_dummy_inputs fails with MissingMandatoryAxisDimension naming the
\* first such axis in mapping order, before any generator is instantiated or
\* queried and before any dummy input is produced.
C6_FirstMissingAxisFailsFast ==
    (last.op = "generate_dummy_inputs" /\ \E i \in 1..Len(_axes) : _axes[i][2] = None)
        => /\ last.err = "MissingMandatoryAxisDimension"
           /\ \E i \in 1..Len(_axes) :
                /\ _axes[i][2] = None
                /\ \A j \in 1..(i - 1) : _axes[j][2] # None
                /\ last.errName = _axes[i][1]
           /\ last.generators = <<>>
           /\ last.queries = <<>>
           /\ last.calls = <<>>
           /\ last.dummy_inputs = <<>>
           /\ last.returned = ""

\* C6 witness: a failed call with two axes missing, the first of which is named.
C6_Witness ==
    /\ last.op = "generate_dummy_inputs"
    /\ Len(_axes) = 2
    /\ _axes[1][2] = None
    /\ _axes[2][2] = None
    /\ last.err = "MissingMandatoryAxisDimension"
    /\ last.errName = _axes[1][1]

\* C7: whenever generate_dummy_inputs gets past validation and instantiates
\* the generators, every axis that is mandatory for the current task is among
\* the axis values the generators are given, with a value that is not None.
C7_GeneratorsGetEveryMandatoryAxis ==
    (last.op = "generate_dummy_inputs" /\ last.generators # <<>>)
        => \A g \in 1..Len(last.generators) : \A a \in MandatoryNow :
             /\ DictHas(last.generators[g].axes, a)
             /\ DictGet(last.generators[g].axes, a) # None

\* Whether some generator class supports the input name.
Supported(input_name) ==
    \E g \in 1..Len(DUMMY_INPUT_GENERATOR_CLASSES) : input_name \in DUMMY_INPUT_GENERATOR_CLASSES[g]

\* The first generator class, in registration order, that supports the input name.
FirstSupporting(input_name) ==
    CHOOSE g \in 1..Len(DUMMY_INPUT_GENERATOR_CLASSES) :
        /\ input_name \in DUMMY_INPUT_GENERATOR_CLASSES[g]
        /\ \A h \in 1..(g - 1) : input_name \notin DUMMY_INPUT_GENERATOR_CLASSES[h]

\* C8: past validation, generate_dummy_inputs takes the declared input names
\* in order and calls generate, for each, on the first generator in
\* registration order that supports it and on no other; the value of that
\* generator is the one kept.  When a name is supported by no generator the
\* call raises RuntimeError naming the first such name and returns nothing.
C8_FirstSupportingGeneratorWins ==
    (last.op = "generate_dummy_inputs" /\ last.err # "MissingMandatoryAxisDimension")
        => IF \A i \in 1..Len(inputs) : Supported(inputs[i])
           THEN /\ last.err = ""
                /\ last.calls = [i \in 1..Len(inputs) |-> <<FirstSupporting(inputs[i]), inputs[i]>>]
                /\ \A i \in 1..Len(inputs) :
                     /\ DictHas(last.dummy_inputs, inputs[i])
                     /\ DictGet(last.dummy_inputs, inputs[i])
                          = Tensor(FirstSupporting(inputs[i]), inputs[i])
                /\ Range(DictKeys(last.dummy_inputs)) = Range(inputs)
                /\ last.returned # ""
           ELSE LET k == CHOOSE i \in 1..Len(inputs) :
                           /\ ~Supported(inputs[i])
                           /\ \A j \in 1..(i - 1) : Supported(inputs[j])
                IN  /\ last.err = "RuntimeError"
                    /\ last.errName = inputs[k]
                    /\ last.calls = [i \in 1..(k - 1) |-> <<FirstSupporting(inputs[i]), inputs[i]>>]
                    /\ last.returned = ""
                    /\ last.ret_dict = <<>>
                    /\ last.ret_tuple = <<>>

\* C8 witness: a generator supporting only input_ids is registered before one
\* supporting input_ids and attention_mask, both names are declared inputs,
\* and input_ids got the value of the first generator.
C8_Witness ==
    /\ last.op = "generate_dummy_inputs"
    /\ last.err = ""
    /\ DUMMY_INPUT_GENERATOR_CLASSES = <<{"input_ids"}, {"input_ids", "attention_mask"}>>
    /\ inputs = <<"input_ids", "attention_mask">>
    /\ DictGet(last.dummy_inputs, "input_ids") = Tensor(1, "input_ids")
    /\ DictGet(last.dummy_inputs, "attention_mask") = Tensor(2, "attention_mask")

\* C9: the wrapper holds the keys of dummy_inputs in mapping order.  Called
\* with as many positional values as there are keys, it calls the model once,
\* with the i-th key bound to the i-th value and nothing else; called with any
\* other number of values, it raises ValueError and does not call the model.
C9_WrapperBindsByPosition ==
    /\ last.op = "check_model_inputs_order"
         => /\ wrapper.built
            /\ Len(wrapper.input_names) = Len(last.ret_dict)
            /\ \A i \in 1..Len(last.ret_dict) : wrapper.input_names[i] = last.ret_dict[i][1]
    /\ last.op = "forward"
         => IF Len(last.input) = Len(wrapper.input_names)
            THEN /\ last.err = ""
                 /\ Len(last.model_calls) = 1
                 /\ Len(last.model_calls[1]) = Len(wrapper.input_names)
                 /\ \A i \in 1..Len(wrapper.input_names) :
                      /\ DictHas(last.model_calls[1], wrapper.input_names[i])
                      /\ DictGet(last.model_calls[1], wrapper.input_names[i]) = last.input[i]
            ELSE /\ last.err = "ValueError"
                 /\ last.model_calls = <<>>

\* C9 witness: a wrapper over two input names called with two different values.
C9_Witness ==
    /\ last.op = "forward"
    /\ Len(wrapper.input_names) = 2
    /\ Len(last.input) = 2
    /\ last.input[1] # last.input[2]
    /\ last.err = ""
    /\ Len(last.model_calls) = 1

\* C10: generate_dummy_inputs(**overrides) leaves the keys of the axis mapping
\* and their order as they were, gives each key the override of its name when
\* there is one and its previous value otherwise, and changes nothing else of
\* the object, whether or not validation then fails; the generators are given
\* the mapping so updated, so that a following call without overrides gives
\* them the values overridden before.
C10_OverridesUpdateTheMappingOnly ==
    [][ last'.op = "generate_dummy_inputs" =>
          /\ Len(_axes') = Len(_axes)
          /\ \A i \in 1..Len(_axes) :
               /\ _axes'[i][1] = _axes[i][1]
               /\ _axes'[i][2] = ( IF _axes[i][1] \in DOMAIN last'.kwargs
                                   THEN last'.kwargs[_axes[i][1]]
                                   ELSE _axes[i][2] )
          /\ UNCHANGED <<MANDATORY_AXES, DUMMY_INPUT_GENERATOR_CLASSES, inputs, _normalized_config,
                         _task, mandatory_axes, dynamic_batch_size, instance_dict, wrapper>>
          /\ \A g \in 1..Len(last'.generators) : last'.generators[g].axes = _axes'
          /\ ( last.op = "generate_dummy_inputs" /\ DOMAIN last'.kwargs = {} )
               => \A g \in 1..Len(last'.generators) : \A n \in DOMAIN last.kwargs :
                    DictHas(_axes, n) => DictGet(last'.generators[g].axes, n) = last.kwargs[n]
      ]_vars

\* C10 witness: a call that got past validation with one override naming an
\* axis of the mapping and one naming no axis of it.
C10_Witness ==
    /\ last.op = "generate_dummy_inputs"
    /\ last.generators # <<>>
    /\ \E n \in DOMAIN last.kwargs : DictHas(_axes, n) /\ DictGet(_axes, n) = last.kwargs[n]
    /\ \E n \in DOMAIN last.kwargs : ~DictHas(_axes, n)

====
